---- MODULE Spec2Model ----
(***************************************************************************)
(* A model of my-calculator: the lexer, the precedence-climbing parser and *)
(* the tree evaluator of src/lib.rs, and the command-line driver of        *)
(* src/main.rs.                                                            *)
(*                                                                         *)
(* Text is a sequence of one-character strings.  A BigDecimal is modelled  *)
(* as a normalised fraction <<n, d>> with d > 0: BigDecimal compares by    *)
(* value (0.30 = 0.3), and +, -, * and unary - are exact.  The library's   *)
(* division rounds a non-terminating quotient to 100 digits; the model     *)
(* keeps the exact quotient.  Division by zero panics in the library.      *)
(***************************************************************************)
EXTENDS Integers, Sequences, FiniteSets, TLC

(***************************************************************************)
(* Bounds of the model.                                                    *)
(***************************************************************************)
\* longest expression of the arithmetic runs, in characters
MaxArithLen == 5
\* most layers of parentheses wrapped around an arithmetic expression
MaxLayers == 2
\* longest expression of the grammar runs, in characters
MaxExprLen == 5
\* longest line of an interactive session, in characters (without the newline)
MaxLineLen == 3
\* most lines the input stream of an interactive session delivers
MaxLines == 3
\* the evaluations counted after the stream has ended
MaxEvalsAfterEof == 2
\* longest expression of the parenthesis runs, in characters
MaxParenLen == 7

(***************************************************************************)
(* BigDecimal                                                              *)
(***************************************************************************)
Abs(x) == IF x < 0 THEN -x ELSE x

RECURSIVE Gcd(_, _)
Gcd(a, b) == IF b = 0 THEN a ELSE Gcd(b, a % b)

Dec(n, d) ==
    LET s == IF d < 0 THEN -1 ELSE 1
        g == Gcd(Abs(n), Abs(d))
    IN  <<(s * n) \div g, (s * d) \div g>>

is_zero(x) == x[1] = 0

\* the value of a slot that holds no decimal
NoValue == <<0, 0>>

dec_add(x, y) == Dec(x[1] * y[2] + y[1] * x[2], x[2] * y[2])

dec_sub(x, y) == Dec(x[1] * y[2] - y[1] * x[2], x[2] * y[2])

dec_mul(x, y) == Dec(x[1] * y[1], x[2] * y[2])

\* only for a divisor that is not zero
dec_div(x, y) == Dec(x[1] * y[2], x[2] * y[1])

dec_neg(x) == <<-x[1], x[2]>>

(***************************************************************************)
(* Characters                                                              *)
(***************************************************************************)
Digits == {"0", "1", "2", "3", "4", "5", "6", "7", "8", "9"}

DigitValue(c) ==
    CASE c = "0" -> 0 [] c = "1" -> 1 [] c = "2" -> 2 [] c = "3" -> 3
      [] c = "4" -> 4 [] c = "5" -> 5 [] c = "6" -> 6 [] c = "7" -> 7
      [] c = "8" -> 8 [] c = "9" -> 9

Lowercase ==
    {"a", "b", "c", "d", "e", "f", "g", "h", "i", "j", "k", "l", "m",
     "n", "o", "p", "q", "r", "s", "t", "u", "v", "w", "x", "y", "z"}

\* u8::is_ascii_whitespace: space, tab, line feed, form feed, carriage return
is_ascii_whitespace(byte) == byte \in {" ", "\t", "\n", "\f", "\r"}

\* a character outside ASCII, written by its code point
NonAsciiChars == {"U+00E9"}

is_ascii(input) == \A i \in 1..Len(input) : input[i] \notin NonAsciiChars

(***************************************************************************)
(* Token (lib.rs 61-83)                                                    *)
(***************************************************************************)
Token(type) == [type |-> type]

TokenNumber(num) == [type |-> "Number", val |-> num]

TokenVariable(name) == [type |-> "Variable", name |-> name]

\* Option<usize>: None is -1, Some(n) is n; None orders below every Some
None == -1

op_precedence_flat(token) ==
    CASE token.type = "Assignment" -> 0
      [] token.type \in {"Plus", "Minus", "Mul", "Div"} -> 1
      [] OTHER -> None

op_precedence(token) ==
    CASE token.type = "Assignment" -> 0
      [] token.type \in {"Plus", "Minus"} -> 1
      [] token.type \in {"Mul", "Div"} -> 2
      [] OTHER -> None

\* input.peek().map(Token::op_precedence).flatten()
lookahead_precedence(input) ==
    IF input = <<>> THEN None ELSE op_precedence(Head(input))

(***************************************************************************)
(* The lexer (lib.rs 117-186)                                              *)
(***************************************************************************)
\* the end of the maximal run of characters of `set` that starts at start_idx:
\* the peek loops of parse_number and parse_variable
RECURSIVE run_end(_, _, _)
run_end(input, end_idx, set) ==
    IF end_idx <= Len(input) /\ input[end_idx] \in set
    THEN run_end(input, end_idx + 1, set)
    ELSE end_idx

RECURSIVE digits_value(_)
digits_value(s) ==
    IF s = <<>> THEN 0
    ELSE 10 * digits_value(SubSeq(s, 1, Len(s) - 1)) + DigitValue(s[Len(s)])

RECURSIVE pow10(_)
pow10(n) == IF n = 0 THEN 1 ELSE 10 * pow10(n - 1)

\* str::parse::<BigDecimal> on a run of digits and dots: the text splits at its
\* first dot, and what is left must be a number of at least one digit
parse_decimal(s) ==
    LET dots   == {i \in 1..Len(s) : s[i] = "."}
        loc    == IF dots = {} THEN Len(s) + 1
                  ELSE CHOOSE i \in dots : \A j \in dots : i <= j
        lead   == SubSeq(s, 1, loc - 1)
        trail  == SubSeq(s, loc + 1, Len(s))
        digits == lead \o trail
    IN  IF digits = <<>> \/ \E i \in 1..Len(digits) : digits[i] \notin Digits
        THEN [ok |-> FALSE, num |-> NoValue]
        ELSE [ok |-> TRUE, num |-> Dec(digits_value(digits), pow10(Len(trail)))]

\* start_idx is the place of the run's first character, end_idx the place after
\* its last one
parse_number(start_idx, input) ==
    LET end_idx == run_end(input, start_idx + 1, Digits \cup {"."})
        text    == SubSeq(input, start_idx, end_idx - 1)
        number  == parse_decimal(text)
    IN  [ok |-> number.ok, num |-> number.num, text |-> text, end_idx |-> end_idx]

parse_variable(start_idx, input) ==
    LET end_idx == run_end(input, start_idx + 1, Lowercase \cup {"-"})
    IN  [name |-> SubSeq(input, start_idx, end_idx - 1), end_idx |-> end_idx]

NoError == [variant |-> "None", inner |-> "None", arg |-> <<>>]

LexError(inner, arg) == [variant |-> "LexError", inner |-> inner, arg |-> arg]

ParseError(inner) == [variant |-> "ParseError", inner |-> inner, arg |-> <<>>]

UnassignedVariable(name) ==
    [variant |-> "UnassignedVariable", inner |-> "None", arg |-> name]

single_char_token(byte) ==
    CASE byte = "(" -> "ParenStart"
      [] byte = ")" -> "ParenClose"
      [] byte = "+" -> "Plus"
      [] byte = "-" -> "Minus"
      [] byte = "*" -> "Mul"
      [] byte = "/" -> "Div"
      [] byte = "=" -> "Assignment"
      [] OTHER -> "None"

\* the while loop of lex, from the character at idx on
RECURSIVE lex_loop(_, _, _)
lex_loop(input, idx, result) ==
    IF idx > Len(input) THEN [ok |-> TRUE, tokens |-> result, err |-> NoError]
    ELSE
    LET byte == input[idx] IN
    IF is_ascii_whitespace(byte) THEN lex_loop(input, idx + 1, result)
    ELSE IF single_char_token(byte) # "None"
    THEN lex_loop(input, idx + 1, Append(result, Token(single_char_token(byte))))
    ELSE IF byte \in Digits \cup {"."}
    THEN LET number == parse_number(idx, input) IN
         IF number.ok
         THEN lex_loop(input, number.end_idx, Append(result, TokenNumber(number.num)))
         ELSE [ok |-> FALSE, tokens |-> <<>>,
               err |-> LexError("IllegalNumber", number.text)]
    ELSE IF byte \in Lowercase \cup {"_"}
    THEN LET variable == parse_variable(idx, input) IN
         lex_loop(input, variable.end_idx, Append(result, TokenVariable(variable.name)))
    ELSE [ok |-> FALSE, tokens |-> <<>>, err |-> LexError("IllegalToken", <<byte>>)]

lex(input) ==
    IF ~is_ascii(input)
    THEN [ok |-> FALSE, tokens |-> <<>>, err |-> LexError("NonAsciiInput", <<>>)]
    ELSE lex_loop(input, 1, <<>>)

(***************************************************************************)
(* ParseTree (lib.rs 85-115)                                               *)
(***************************************************************************)
NoTree == [type |-> "None"]

TreeNumber(num) == [type |-> "Number", val |-> num]

TreeVariable(name) == [type |-> "Variable", name |-> name]

TreeNeg(tree) == [type |-> "Neg", tree |-> tree]

TreeAssignment(name, tree) == [type |-> "Assignment", name |-> name, tree |-> tree]

\* Plus, Sub, Mul and Div
TreeBinary(type, left, right) == [type |-> type, left |-> left, right |-> right]

BinaryTypes == {"Plus", "Sub", "Mul", "Div"}

\* a parser result: Ok(tree) or Err(err), the tokens the iterator still holds, and
\* the log of what the parser did so far: each call of ParseTree::apply (its
\* operator and the kind of its left-hand side) and each opening parenthesis
\* parse_primary consumed ("ParenStart", and the kind of the token next_back gave)
ParseOk(tree, input, applied) ==
    [ok |-> TRUE, tree |-> tree, err |-> "None", input |-> input, log |-> applied]

ParseErr(err, input, applied) ==
    [ok |-> FALSE, tree |-> NoTree, err |-> err, input |-> input, log |-> applied]

\* a version of apply that builds the Assignment whatever its left-hand side is
apply_unchecked(self, op, other) ==
    CASE op.type = "Plus" -> [ok |-> TRUE, err |-> "None", tree |-> TreeBinary("Plus", self, other)]
      [] op.type = "Minus" -> [ok |-> TRUE, err |-> "None", tree |-> TreeBinary("Sub", self, other)]
      [] op.type = "Mul" -> [ok |-> TRUE, err |-> "None", tree |-> TreeBinary("Mul", self, other)]
      [] op.type = "Div" -> [ok |-> TRUE, err |-> "None", tree |-> TreeBinary("Div", self, other)]
      [] op.type = "Assignment" ->
            [ok |-> TRUE, err |-> "None",
             tree |-> TreeAssignment(IF self.type = "Variable" THEN self.name ELSE <<>>, other)]
      [] OTHER -> [ok |-> FALSE, err |-> "ExpectedBinaryOperator", tree |-> NoTree]

apply(self, op, other) ==
    CASE op.type = "Plus" -> [ok |-> TRUE, err |-> "None", tree |-> TreeBinary("Plus", self, other)]
      [] op.type = "Minus" -> [ok |-> TRUE, err |-> "None", tree |-> TreeBinary("Sub", self, other)]
      [] op.type = "Mul" -> [ok |-> TRUE, err |-> "None", tree |-> TreeBinary("Mul", self, other)]
      [] op.type = "Div" -> [ok |-> TRUE, err |-> "None", tree |-> TreeBinary("Div", self, other)]
      [] op.type = "Assignment" ->
            IF self.type = "Variable"
            THEN [ok |-> TRUE, err |-> "None", tree |-> TreeAssignment(self.name, other)]
            ELSE [ok |-> FALSE, err |-> "ExpectedVariable", tree |-> NoTree]
      [] OTHER -> [ok |-> FALSE, err |-> "ExpectedBinaryOperator", tree |-> NoTree]

(***************************************************************************)
(* The parser (lib.rs 188-231).  The iterator is the sequence of the       *)
(* tokens it still holds: next takes the first, next_back the last (a      *)
(* peeked token is still one of them), peek looks at the first.            *)
(***************************************************************************)
NoToken == [type |-> "None"]

\* a version of next_back that takes the token from the front, as next does
next_back_front(input) ==
    IF input = <<>> THEN [item |-> NoToken, input |-> input]
    ELSE [item |-> Head(input), input |-> Tail(input)]

next_back(input) ==
    IF input = <<>> THEN [item |-> NoToken, input |-> input]
    ELSE [item |-> input[Len(input)], input |-> SubSeq(input, 1, Len(input) - 1)]

\* a version of the test that takes any token for the closing parenthesis
is_any_token(item) == item.type # "None"

\* if let Some(Token::ParenClose) = input.next_back()
is_paren_close(item) == item.type = "ParenClose"

RECURSIVE parse_expr(_)
RECURSIVE parse_expr_rec(_, _, _)
RECURSIVE parse_expr_rec_rhs(_, _, _)
RECURSIVE parse_primary(_)

parse_expr(input) ==
    LET primary == parse_primary(input) IN
    IF ~primary.ok THEN primary
    ELSE LET rec == parse_expr_rec(primary.tree, primary.input, 0)
         IN  [rec EXCEPT !.log = primary.log \o @]

\* one round of the outer while loop, then the rest of the loop
parse_expr_rec(lhs, input, min_precedence) ==
    IF lookahead_precedence(input) >= min_precedence
    THEN LET op      == Head(input)
             primary == parse_primary(Tail(input))
         IN  IF ~primary.ok THEN primary
             ELSE
             LET rhs == parse_expr_rec_rhs(primary.tree, primary.input, op)
                 log == primary.log \o rhs.log
             IN  IF ~rhs.ok THEN [rhs EXCEPT !.log = log]
                 ELSE
                 LET applied == apply(lhs, op, rhs.tree)
                     logged  == Append(log, [op |-> op.type, lhs |-> lhs.type])
                 IN  IF ~applied.ok THEN ParseErr(applied.err, rhs.input, logged)
                     ELSE
                     LET rest == parse_expr_rec(applied.tree, rhs.input, min_precedence)
                     IN  [rest EXCEPT !.log = logged \o @]
    ELSE ParseOk(lhs, input, <<>>)

\* the inner while loop: the right-hand side takes in every operator that binds
\* tighter than op
parse_expr_rec_rhs(rhs, input, op) ==
    IF lookahead_precedence(input) > op_precedence(op)
    THEN LET lookahead_prec == lookahead_precedence(input)
             rec == parse_expr_rec(rhs, input, lookahead_prec)
         IN  IF ~rec.ok THEN rec
             ELSE LET rest == parse_expr_rec_rhs(rec.tree, rec.input, op)
                  IN  [rest EXCEPT !.log = rec.log \o @]
    ELSE ParseOk(rhs, input, <<>>)

parse_primary(input) ==
    IF input = <<>> THEN ParseErr("EmptyInput", input, <<>>)
    ELSE
    LET token == Head(input)
        rest  == Tail(input)
    IN  CASE token.type = "ParenStart" ->
                LET back   == next_back(rest)
                    popped == [op |-> "ParenStart", lhs |-> back.item.type]
                IN  IF is_paren_close(back.item)
                    THEN LET inner == parse_expr(back.input)
                         IN  [inner EXCEPT !.log = <<popped>> \o @]
                    ELSE ParseErr("UnmatchedParens", back.input, <<popped>>)
          [] token.type = "Number" -> ParseOk(TreeNumber(token.val), rest, <<>>)
          [] token.type = "Minus" ->
                LET primary == parse_primary(rest) IN
                IF primary.ok
                THEN ParseOk(TreeNeg(primary.tree), primary.input, primary.log)
                ELSE primary
          [] token.type = "Variable" -> ParseOk(TreeVariable(token.name), rest, <<>>)
          [] OTHER -> ParseErr("UnmatchedToken", rest, <<>>)

(***************************************************************************)
(* EvalContext and the evaluator (lib.rs 20-23, 233-253).                  *)
(* variables is a function from the names assigned so far to their values. *)
(* An evaluation also yields the log of what it did, in order: the calls   *)
(* of eval_tree ("call", with the path of the node from the root: 1 is the *)
(* left or only child, 2 the right one), the lookups ("get"), the          *)
(* assignments evaluated ("assign") and a panic of the division ("panic"). *)
(***************************************************************************)
EmptyContext == <<>>

Event(ev, path, name, found, val) ==
    [ev |-> ev, path |-> path, name |-> name, found |-> found, val |-> val]

\* a version of HashMap::insert that stores nothing
insert_nothing(variables, name, value) == variables

\* HashMap::insert
insert(variables, name, value) ==
    [n \in DOMAIN variables \cup {name} |-> IF n = name THEN value ELSE variables[n]]

\* an evaluation result: Ok(val), Err(err) or a panic, the context as the call
\* leaves it, and the log
EvalResult(kind, val, err, context, trace) ==
    [kind |-> kind, val |-> val, err |-> err, context |-> context, trace |-> trace]

\* a version of the Assignment arm that stores the variable before it looks at
\* the outcome of the right-hand side
assignment_eager(name, result, called) ==
    EvalResult(result.kind, result.val, result.err,
               insert(result.context, name, result.val),
               (<<called>> \o result.trace)
                   \o <<Event("assign", called.path, name, TRUE, result.val)>>)

\* the Assignment arm once the right-hand side has been evaluated to `result`:
\* the ? returns its error, and a value is stored under the name and returned
assignment(name, result, called) ==
    IF result.kind # "Ok" THEN [result EXCEPT !.trace = <<called>> \o @]
    ELSE EvalResult("Ok", result.val, NoError,
                    insert(result.context, name, result.val),
                    (<<called>> \o result.trace)
                        \o <<Event("assign", called.path, name, TRUE, result.val)>>)

\* a version of operands that has the right operand evaluated first
operands_swapped(tree) ==
    <<[tree |-> tree.right, idx |-> 2], [tree |-> tree.left, idx |-> 1]>>

\* the operands of a binary node in the order the arm evaluates them
operands(tree) ==
    <<[tree |-> tree.left, idx |-> 1], [tree |-> tree.right, idx |-> 2]>>

\* the BigDecimal operator of a binary node; Div panics on a zero divisor
binary_op(type, left, right) ==
    CASE type = "Plus" -> [panic |-> FALSE, val |-> dec_add(left, right)]
      [] type = "Sub" -> [panic |-> FALSE, val |-> dec_sub(left, right)]
      [] type = "Mul" -> [panic |-> FALSE, val |-> dec_mul(left, right)]
      [] type = "Div" ->
            IF is_zero(right) THEN [panic |-> TRUE, val |-> NoValue]
            ELSE [panic |-> FALSE, val |-> dec_div(left, right)]

RECURSIVE eval_tree(_, _, _)
eval_tree(parse_tree, context, path) ==
    LET called == Event("call", path, <<>>, FALSE, NoValue) IN
    CASE parse_tree.type = "Number" ->
            EvalResult("Ok", parse_tree.val, NoError, context, <<called>>)
      [] parse_tree.type = "Variable" ->
            IF parse_tree.name \in DOMAIN context
            THEN EvalResult("Ok", context[parse_tree.name], NoError, context,
                            <<called, Event("get", path, parse_tree.name, TRUE,
                                            context[parse_tree.name])>>)
            ELSE EvalResult("Err", NoValue, UnassignedVariable(parse_tree.name), context,
                            <<called, Event("get", path, parse_tree.name, FALSE, NoValue)>>)
      [] parse_tree.type = "Assignment" ->
            assignment(parse_tree.name,
                       eval_tree(parse_tree.tree, context, Append(path, 1)), called)
      [] parse_tree.type = "Neg" ->
            LET result == eval_tree(parse_tree.tree, context, Append(path, 1)) IN
            IF result.kind # "Ok" THEN [result EXCEPT !.trace = <<called>> \o @]
            ELSE [result EXCEPT !.val = dec_neg(@), !.trace = <<called>> \o @]
      [] parse_tree.type \in BinaryTypes ->
            LET order == operands(parse_tree)
                first == eval_tree(order[1].tree, context, Append(path, order[1].idx))
            IN  IF first.kind # "Ok" THEN [first EXCEPT !.trace = <<called>> \o @]
                ELSE
                LET second == eval_tree(order[2].tree, first.context,
                                        Append(path, order[2].idx))
                    trace  == (<<called>> \o first.trace) \o second.trace
                IN  IF second.kind # "Ok" THEN [second EXCEPT !.trace = trace]
                    ELSE
                    LET left   == IF order[1].idx = 1 THEN first.val ELSE second.val
                        right  == IF order[1].idx = 1 THEN second.val ELSE first.val
                        result == binary_op(parse_tree.type, left, right)
                    IN  IF result.panic
                        THEN EvalResult("Panic", NoValue, NoError, second.context,
                                        Append(trace, Event("panic", path, <<>>, FALSE,
                                                            NoValue)))
                        ELSE EvalResult("Ok", result.val, NoError, second.context, trace)

(***************************************************************************)
(* eval (lib.rs 6-18).  The result also keeps what the stages produced:    *)
(* the tokens, whether a tree was parsed, the tree, the tokens parse_expr  *)
(* left in the iterator and the log of the parser.  print_parse_tree only  *)
(* prints.                                                                 *)
(***************************************************************************)
Output(result, tokens, parsed, tree, rest, applied) ==
    [kind |-> result.kind, val |-> result.val, err |-> result.err,
     context |-> result.context, trace |-> result.trace,
     tokens |-> tokens, parsed |-> parsed, tree |-> tree, rest |-> rest,
     log |-> applied]

eval(input, context) ==
    LET tokens == lex(input) IN
    IF ~tokens.ok
    THEN Output(EvalResult("Err", NoValue, tokens.err, context, <<>>),
                <<>>, FALSE, NoTree, <<>>, <<>>)
    ELSE
    LET parse_tree == parse_expr(tokens.tokens) IN
    IF ~parse_tree.ok
    THEN Output(EvalResult("Err", NoValue, ParseError(parse_tree.err), context, <<>>),
                tokens.tokens, FALSE, NoTree, parse_tree.input, parse_tree.log)
    ELSE Output(eval_tree(parse_tree.tree, context, <<>>),
                tokens.tokens, TRUE, parse_tree.tree, parse_tree.input,
                parse_tree.log)

\* what the driver holds before any evaluation
NoOutput ==
    Output(EvalResult("None", NoValue, NoError, EmptyContext, <<>>),
           <<>>, FALSE, NoTree, <<>>, <<>>)

(***************************************************************************)
(* The driver (main.rs 15-40)                                              *)
(***************************************************************************)
VARIABLES
    pc,               \* where main is: "main", "read_line", "handle_input",
                      \* "clear", "exit" (main returned) or "panicked"
    expression,       \* opts.expression
    buffer,           \* the line buffer of interactive mode
    stdin_lines,      \* the lines read from the input stream so far
    stdin_eof,        \* the input stream has reported its end
    eval_context,     \* eval_context.variables
    out,              \* what the eval of the last handle_input returned
    assigned,         \* each name's last evaluated assignment, kept from the logs
    evals_after_eof   \* the evaluations made since the stream reported its end

vars ==
    <<pc, expression, buffer, stdin_lines, stdin_eof, eval_context, out,
      assigned, evals_after_eof>>

\* all texts of at most n characters of chars
Texts(chars, n) == UNION {[1..k -> chars] : k \in 0..n}

NoExpression == [some |-> FALSE, text |-> <<>>]

SomeExpression(text) == [some |-> TRUE, text |-> text]

\* the characters of the lines of Spec
LineChars == {"a", "b", "=", "1", "2"}

\* the characters of the expressions of SpecArith
ArithChars == {"0", "2", "3", "+", "-", "*", "/"}

\* the characters of the expressions of SpecParen
ParenChars == {"1", "2", "+", "(", ")", " "}

\* the characters of the expressions of SpecExpr and of Spec
ExprChars == {"0", "1", ".", "a", "=", "/", "-", "(", ")"}

\* the assignments a log holds, applied in order to a map of names to values
RECURSIVE Replay(_, _)
Replay(map, trace) ==
    IF trace = <<>> THEN map
    ELSE LET e == Head(trace) IN
         IF e.ev = "assign"
         THEN Replay([n \in DOMAIN map \cup {e.name} |->
                          IF n = e.name THEN e.val ELSE map[n]], Tail(trace))
         ELSE Replay(map, Tail(trace))

Min(a, b) == IF a < b THEN a ELSE b

InitWith(expressions) ==
    /\ pc = "main"
    /\ expression \in expressions
    /\ buffer = <<>>
    /\ stdin_lines = 0
    /\ stdin_eof = FALSE
    /\ eval_context = EmptyContext
    /\ out = NoOutput
    /\ assigned = EmptyContext
    /\ evals_after_eof = 0

\* handle_input: eval on the input and the context, and the result printed
HandleWith(input) ==
    /\ out' = eval(input, eval_context)
    /\ eval_context' = out'.context
    /\ assigned' = Replay(assigned, out'.trace)
    /\ evals_after_eof' =
          IF stdin_eof THEN Min(evals_after_eof + 1, MaxEvalsAfterEof)
          ELSE evals_after_eof

\* main with an expression argument: one handle_input, and main returns
HandleExpression ==
    /\ pc = "main"
    /\ expression.some
    /\ HandleWith(expression.text)
    /\ pc' = IF out'.kind = "Panic" THEN "panicked" ELSE "exit"
    /\ UNCHANGED <<expression, buffer, stdin_lines, stdin_eof>>

\* main without one: the prompt is printed and the loop entered
StartInteractive ==
    /\ pc = "main"
    /\ ~expression.some
    /\ pc' = "read_line"
    /\ UNCHANGED <<expression, buffer, stdin_lines, stdin_eof, eval_context, out,
                   assigned, evals_after_eof>>

\* stdin.read_line appends a line and its line feed to the buffer
ReadLine ==
    /\ pc = "read_line"
    /\ ~stdin_eof
    /\ stdin_lines < MaxLines
    /\ \E line \in Texts(LineChars, MaxLineLen) : buffer' = (buffer \o line) \o <<"\n">>
    /\ stdin_lines' = stdin_lines + 1
    /\ pc' = "handle_input"
    /\ UNCHANGED <<expression, stdin_eof, eval_context, out, assigned, evals_after_eof>>

\* stdin.read_line at the end of the stream: Ok(0), and the buffer as it was
ReadEof ==
    /\ pc = "read_line"
    /\ stdin_eof' = TRUE
    /\ pc' = "handle_input"
    /\ UNCHANGED <<expression, buffer, stdin_lines, eval_context, out, assigned,
                   evals_after_eof>>

\* handle_input on the buffer
HandleInput ==
    /\ pc = "handle_input"
    /\ HandleWith(buffer)
    /\ pc' = IF out'.kind = "Panic" THEN "panicked" ELSE "clear"
    /\ UNCHANGED <<expression, buffer, stdin_lines, stdin_eof>>

\* buffer.clear(), the end of the loop body; the printed result is gone
Clear ==
    /\ pc = "clear"
    /\ buffer' = <<>>
    /\ out' = NoOutput
    /\ pc' = "read_line"
    /\ UNCHANGED <<expression, stdin_lines, stdin_eof, eval_context, assigned,
                   evals_after_eof>>

\* main in interactive mode, or with an expression of the whole grammar
Init ==
    InitWith({NoExpression}
                 \cup {SomeExpression(t) : t \in Texts(ExprChars, MaxExprLen)})

Next ==
    HandleExpression \/ StartInteractive \/ ReadLine \/ ReadEof \/ HandleInput \/ Clear

Spec == Init /\ [][Next]_vars

\* main with an arithmetic expression without parentheses as its argument
InitArith == InitWith({SomeExpression(t) : t \in Texts(ArithChars, MaxArithLen)})

NextArith == HandleExpression

SpecArith == InitArith /\ [][NextArith]_vars

\* main with an expression of numbers, +, parentheses and spaces as its argument
InitParen == InitWith({SomeExpression(t) : t \in Texts(ParenChars, MaxParenLen)})

NextParen == HandleExpression

SpecParen == InitParen /\ [][NextParen]_vars

\* main with an expression of the whole grammar as its argument
InitExpr == InitWith({SomeExpression(t) : t \in Texts(ExprChars, MaxExprLen)})

NextExpr == HandleExpression

SpecExpr == InitExpr /\ [][NextExpr]_vars

(***************************************************************************)
(* The conventional reading of a token sequence of numbers, operators and  *)
(* parentheses: it splits at the last binary + or - outside parentheses,   *)
(* else at the last binary * or /, else it is a unary minus before such a  *)
(* reading, a reading in parentheses, or a number.                         *)
(***************************************************************************)
Count(tokens, n, type) == Cardinality({j \in 1..n : tokens[j].type = type})

\* the parentheses open before the token at i
Depth(tokens, i) ==
    Count(tokens, i - 1, "ParenStart") - Count(tokens, i - 1, "ParenClose")

Balanced(tokens) ==
    /\ \A i \in 1..Len(tokens) + 1 : Depth(tokens, i) >= 0
    /\ Depth(tokens, Len(tokens) + 1) = 0

\* an operator outside parentheses that follows an operand
BinaryAt(tokens, types) ==
    {i \in 2..Len(tokens) :
        /\ tokens[i].type \in types
        /\ tokens[i - 1].type \in {"Number", "ParenClose"}
        /\ Depth(tokens, i) = 0}

Last(set) == CHOOSE i \in set : \A j \in set : j <= i

NoReading == [valid |-> FALSE, defined |-> FALSE, val |-> NoValue]

Reading(val) == [valid |-> TRUE, defined |-> TRUE, val |-> val]

Undefined == [valid |-> TRUE, defined |-> FALSE, val |-> NoValue]

Combine(type, left, right) ==
    IF ~(left.valid /\ right.valid) THEN NoReading
    ELSE IF ~(left.defined /\ right.defined) THEN Undefined
    ELSE CASE type = "Plus" -> Reading(dec_add(left.val, right.val))
           [] type = "Minus" -> Reading(dec_sub(left.val, right.val))
           [] type = "Mul" -> Reading(dec_mul(left.val, right.val))
           [] type = "Div" ->
                 IF is_zero(right.val) THEN Undefined
                 ELSE Reading(dec_div(left.val, right.val))

RECURSIVE RefValue(_)
RefValue(tokens) ==
    LET additive       == BinaryAt(tokens, {"Plus", "Minus"})
        multiplicative == BinaryAt(tokens, {"Mul", "Div"})
        split == IF additive # {} THEN Last(additive)
                 ELSE IF multiplicative # {} THEN Last(multiplicative)
                 ELSE 0
        n == Len(tokens)
    IN  IF n = 0 \/ ~Balanced(tokens) THEN NoReading
        ELSE IF split > 0
        THEN Combine(tokens[split].type, RefValue(SubSeq(tokens, 1, split - 1)),
                     RefValue(SubSeq(tokens, split + 1, n)))
        ELSE IF tokens[1].type = "Minus"
        THEN LET inner == RefValue(Tail(tokens)) IN
             IF inner.valid /\ inner.defined THEN Reading(dec_neg(inner.val)) ELSE inner
        ELSE IF tokens[1].type = "ParenStart" /\ tokens[n].type = "ParenClose"
        THEN RefValue(SubSeq(tokens, 2, n - 1))
        ELSE IF n = 1 /\ tokens[1].type = "Number" THEN Reading(tokens[1].val)
        ELSE NoReading

\* main has made its one handle_input
Handled == pc \in {"exit", "panicked"}

(***************************************************************************)
(* Claims                                                                  *)
(***************************************************************************)

\* C1: when parse_expr returns a tree and tokens are left in the iterator, eval
\* returns a parse error and never a decimal.
C1_TrailingTokensRejected ==
    (Handled /\ out.parsed /\ out.rest # <<>>) =>
        (out.kind = "Err" /\ out.err.variant = "ParseError")

\* C2: for an expression of numbers, unary minus and + - * / without parentheses,
\* eval returns the value of the conventional reading: unary minus on the primary
\* that follows, * and / before + and -, equal precedence from the left.
C2_ReferenceReading ==
    Handled =>
        LET ref == RefValue(out.tokens) IN
        (ref.valid /\ ref.defined) => (out.kind = "Ok" /\ out.val = ref.val)

C2_Witness ==
    /\ pc = "exit"
    /\ expression.text = <<"3", "-", "2", "*", "3">>
    /\ out.kind = "Ok"
    /\ out.val = Dec(-3, 1)

\* C3: over the evaluations of one session, every lookup of a variable returns
\* the value of the most recent evaluated assignment to it, and without one the
\* evaluation fails with UnassignedVariable of that name.
C3_LookupSeesLastAssignment ==
    [][\A i \in 1..Len(out'.trace) :
          out'.trace[i].ev = "get" =>
              LET e    == out'.trace[i]
                  seen == Replay(assigned, SubSeq(out'.trace, 1, i - 1))
              IN  IF e.name \in DOMAIN seen
                  THEN e.found /\ e.val = seen[e.name]
                  ELSE /\ ~e.found
                       /\ out'.kind = "Err"
                       /\ out'.err = UnassignedVariable(e.name)]_vars

C3_Witness ==
    /\ pc = "clear"
    /\ stdin_lines = 3
    /\ out.kind = "Ok"
    /\ out.val = Dec(2, 1)
    /\ \E i \in 1..Len(out.trace) :
          /\ out.trace[i].ev = "get"
          /\ out.trace[i].name = <<"a">>
          /\ out.trace[i].found

UnclosedParens(log) ==
    {i \in 1..Len(log) : log[i].op = "ParenStart" /\ log[i].lhs # "ParenClose"}

RECURSIVE Wrap(_, _)
Wrap(text, k) ==
    IF k = 0 THEN text ELSE Wrap((<<"(">> \o text) \o <<")">>, k - 1)

\* C5: a valid arithmetic expression without parentheses evaluates to the same
\* result in any number k >= 1 of layers of parentheses around it.
C5_RedundantParens ==
    (Handled /\ RefValue(out.tokens).valid) =>
        \A k \in 1..MaxLayers :
            LET wrapped == eval(Wrap(expression.text, k), EmptyContext)
            IN  /\ wrapped.kind = out.kind
                /\ wrapped.val = out.val
                /\ wrapped.err = out.err

C5_Witness ==
    /\ pc = "exit"
    /\ expression.text = <<"2", "+", "3", "*", "2">>
    /\ out.val = Dec(8, 1)
    /\ eval(Wrap(expression.text, MaxLayers), EmptyContext).val = Dec(8, 1)

\* the applications of = to a left-hand side that is no bare Variable node
BadAssignments(applied) ==
    {i \in 1..Len(applied) :
        applied[i].op = "Assignment" /\ applied[i].lhs # "Variable"}

\* C6: when the parser applies = to a left-hand side that is not a bare Variable
\* node, parsing fails with ParseError::ExpectedVariable and no tree is built.
C6_AssignmentNeedsVariable ==
    (Handled /\ BadAssignments(out.log) # {}) =>
        /\ out.kind = "Err"
        /\ out.err = ParseError("ExpectedVariable")
        /\ ~out.parsed
        /\ out.tree = NoTree

C6_Witness ==
    /\ pc = "exit"
    /\ expression.text = <<"a", "=", "a", "=", "1">>
    /\ out.log = <<[op |-> "Assignment", lhs |-> "Variable"],
                       [op |-> "Assignment", lhs |-> "Assignment"]>>
    /\ out.err = ParseError("ExpectedVariable")

\* C7: in interactive mode, once the stream has reported its end the loop stops
\* and no further evaluation is made.
C7_LoopStopsAtEndOfInput == stdin_eof => evals_after_eof = 0

\* C8: for a token sequence with balanced parentheses eval returns the value of
\* the conventional reading, each group in parentheses evaluated as a unit.
C8_GroupsEvaluatedAsUnits ==
    (Handled /\ Balanced(out.tokens) /\ Count(out.tokens, Len(out.tokens), "ParenStart") > 0) =>
        LET ref == RefValue(out.tokens) IN
        (ref.valid /\ ref.defined) => (out.kind = "Ok" /\ out.val = ref.val)

\* the node of a tree at a path
RECURSIVE NodeAt(_, _)
NodeAt(tree, path) ==
    IF path = <<>> THEN tree
    ELSE IF tree.type \in BinaryTypes
    THEN NodeAt(IF Head(path) = 1 THEN tree.left ELSE tree.right, Tail(path))
    ELSE NodeAt(tree.tree, Tail(path))

\* the places in a log of the calls of eval_tree on the node at a path
Calls(trace, path) ==
    {i \in 1..Len(trace) : trace[i].ev = "call" /\ trace[i].path = path}

IsPrefix(p, q) == Len(p) <= Len(q) /\ SubSeq(q, 1, Len(p)) = p

\* the evaluation of the node at path failed: a lookup under it found nothing, or
\* a division under it panicked
FailedUnder(trace, path) ==
    \E i \in 1..Len(trace) :
        /\ \/ trace[i].ev = "get" /\ ~trace[i].found
           \/ trace[i].ev = "panic"
        /\ IsPrefix(path, trace[i].path)

\* C9 as claimed: in every call of eval_tree on a binary node both operands are
\* evaluated exactly once, the left before the right, and on an Assignment node
\* the right-hand side exactly once.
C9_BothOperandsOnce ==
    (Handled /\ out.parsed) =>
        \A i \in 1..Len(out.trace) :
            out.trace[i].ev = "call" =>
                LET p     == out.trace[i].path
                    node  == NodeAt(out.tree, p)
                    left  == Calls(out.trace, Append(p, 1))
                    right == Calls(out.trace, Append(p, 2))
                IN  /\ node.type \in BinaryTypes =>
                        /\ Cardinality(left) = 1
                        /\ Cardinality(right) = 1
                        /\ \A l \in left, r \in right : i < l /\ l < r
                    /\ node.type = "Assignment" => Cardinality(left) = 1

\* C9 as amended: the left operand is evaluated exactly once and first; the right
\* operand is evaluated exactly once, after the left, unless the evaluation of
\* the left failed (UnassignedVariable, or a panic of a division by zero), and
\* then not at all; the right-hand side of an Assignment is evaluated exactly once.
C9_OperandsOnceUnlessLeftFails ==
    (Handled /\ out.parsed) =>
        \A i \in 1..Len(out.trace) :
            out.trace[i].ev = "call" =>
                LET p     == out.trace[i].path
                    node  == NodeAt(out.tree, p)
                    left  == Calls(out.trace, Append(p, 1))
                    right == Calls(out.trace, Append(p, 2))
                IN  /\ node.type \in BinaryTypes =>
                        /\ Cardinality(left) = 1
                        /\ \A l \in left : i < l
                        /\ IF FailedUnder(out.trace, Append(p, 1))
                           THEN right = {} /\ out.kind \in {"Err", "Panic"}
                           ELSE /\ Cardinality(right) = 1
                                /\ \A l \in left, r \in right : l < r
                    /\ node.type = "Assignment" => Cardinality(left) = 1

C9_Witness ==
    /\ pc = "exit"
    /\ expression.text = <<"a", "=", "1", "/", "1">>
    /\ out.tree.type = "Assignment"
    /\ out.tree.tree.type = "Div"
    /\ Cardinality(Calls(out.trace, <<1, 1>>)) = 1
    /\ Cardinality(Calls(out.trace, <<1, 2>>)) = 1
    /\ out.val = Dec(1, 1)

\* C10: when eval returns an error the context is as it was before the call.
C10_ErrorLeavesContext ==
    [][out'.kind = "Err" => eval_context' = eval_context]_vars

C10_Witness ==
    /\ pc = "clear"
    /\ out.kind = "Err"
    /\ out.err = UnassignedVariable(<<"b">>)
    /\ out.tree.type = "Assignment"
    /\ eval_context # EmptyContext

====
